---- MODULE Spec2Model ----
(***************************************************************************)
(* Model of the transaction controller of the expense-tracker backend      *)
(* (createTransaction, getTransactions, getTransactionById,                *)
(* updateTransaction, deleteTransaction, getSummary, getAnalytics) over    *)
(* the Mongoose Transaction collection, and of the protect middleware that *)
(* every transaction route runs first.                                     *)
(*                                                                         *)
(* A handler that awaits the record store more than once is modelled as    *)
(* one action per store call, so that other requests can interleave at     *)
(* every await.  A handler with a single store call is one action.  Every  *)
(* store call can fail, which the handlers' catch blocks answer with 500.  *)
(*                                                                         *)
(* Instants are counted in ticks (TicksPerDay per day) since               *)
(* 00:00 of 1 January of EpochYear; the server's local time zone is UTC.   *)
(***************************************************************************)
EXTENDS Integers, Sequences, FiniteSets, TLC

VARIABLES
    store,      \* the Transaction collection: record id -> document
    nextId,     \* the next fresh _id (an ObjectId is never issued twice)
    creator,    \* history: record id -> the caller whose create produced it
    now,        \* the server clock (Date.now)
    req,        \* request slot -> the locals of the handler suspended in it
    resp,       \* the response the latest step sent (NoResp if it sent none)
    enum,       \* history: the pages one client collected by calling list
    log         \* history: the writes updateTransaction issued (if turned on)

vars == <<store, nextId, creator, now, req, resp, enum, log>>

----------------------------------------------------------------------------
(* Bounds *)

MaxRecords == 2     \* creates that succeed in one behaviour
MaxAmount == 2      \* amounts in request bodies are 1..MaxAmount

Users == {"u1", "u2"}

\* Request slots: two requests can be in flight at once
Reqs == {1, 2}

----------------------------------------------------------------------------
(* Calendar: what Date's getters and setters compute *)

EpochYear == 2025
TicksPerDay == 2

IsLeap(y) == (y % 4 = 0 /\ y % 100 # 0) \/ y % 400 = 0

DaysInYear(y) == IF IsLeap(y) THEN 366 ELSE 365

DaysInMonth(y, m) ==
    IF m = 2 THEN (IF IsLeap(y) THEN 29 ELSE 28)
    ELSE IF m \in {4, 6, 9, 11} THEN 30 ELSE 31

RECURSIVE DaysBeforeYear(_)
DaysBeforeYear(y) ==
    IF y = EpochYear THEN 0
    ELSE IF y > EpochYear THEN DaysBeforeYear(y - 1) + DaysInYear(y - 1)
    ELSE DaysBeforeYear(y + 1) - DaysInYear(y)

RECURSIVE DaysBeforeMonth(_, _)
DaysBeforeMonth(y, m) ==
    IF m = 1 THEN 0 ELSE DaysBeforeMonth(y, m - 1) + DaysInMonth(y, m - 1)

\* MakeDay of ECMAScript: month index m0 counts from 0 and may lie outside
\* 0..11, day d may exceed the month's length; both carry over.
MakeDay(y, m0, d) ==
    LET ym == y + (m0 \div 12)
        mn == (m0 % 12) + 1
    IN  DaysBeforeYear(ym) + DaysBeforeMonth(ym, mn) + (d - 1)

Years == (EpochYear - 1) .. (EpochYear + 1)

DayOf(t) == t \div TicksPerDay

YearOf(t) ==
    CHOOSE y \in Years : DaysBeforeYear(y) <= DayOf(t) /\ DayOf(t) < DaysBeforeYear(y + 1)

\* $month / getMonth() + 1: 1..12
MonthOf(t) ==
    LET y == YearOf(t)
        d == DayOf(t) - DaysBeforeYear(y)
    IN  CHOOSE m \in 1 .. 12 :
            DaysBeforeMonth(y, m) <= d /\ d < DaysBeforeMonth(y, m) + DaysInMonth(y, m)

\* getDate(): 1..31
DateOf(t) ==
    DayOf(t) - DaysBeforeYear(YearOf(t)) - DaysBeforeMonth(YearOf(t), MonthOf(t)) + 1

\* d.setMonth(m0): same year, day of month and time of day, month index m0
SetMonth(t, m0) ==
    MakeDay(YearOf(t), m0, DateOf(t)) * TicksPerDay + (t % TicksPerDay)

\* d.setHours(0, 0, 0, 0)
SetHoursZero(t) == DayOf(t) * TicksPerDay

\* An instant from a calendar date and a tick of that day
At(y, m, d, tick) == MakeDay(y, m - 1, d) * TicksPerDay + tick

----------------------------------------------------------------------------
(* Documents and request bodies *)

Kinds == {"income", "expense"}

NoCategory == "<unset>"

SchemaPaths == {"userId", "title", "amount", "type", "category", "date"}

Has(body, f) == f \in DOMAIN body

\* !x of JavaScript for a text field of the body: absent and "" are falsy
Truthy(body, f) == Has(body, f) /\ body[f] # ""

IsValidObjectId(id) == id >= 1

Idle == [op |-> "idle"]

NoResp == [op |-> "none"]

NoEnum == [key |-> <<>>, got |-> <<>>]

NoLog == [on |-> FALSE, writes |-> <<>>]

\* A write to the collection happened: every list or summary request that is
\* between two of its store calls has read a record set that is now outdated.
Outdated(q) ==
    IF q.op \in {"list", "summary"} THEN [q EXCEPT !.dirty = TRUE] ELSE q

Init ==
    /\ store = <<>>
    /\ nextId = 1
    /\ creator = <<>>
    /\ now = At(EpochYear, 7, 31, 1)
    /\ req = [r \in Reqs |-> Idle]
    /\ resp = NoResp
    /\ enum = NoEnum
    /\ log = NoLog

----------------------------------------------------------------------------
(* createTransaction *)

\* The document Transaction.create stores for a validated body
NewDocument(u, body, t) ==
    [userId |-> u,
     title |-> body.title,
     amount |-> body.amount,
     type |-> body.type,
     category |-> IF Has(body, "category") THEN body.category ELSE NoCategory,
     date |-> IF Has(body, "date") /\ body.date # 0 THEN body.date ELSE t,
     createdAt |-> t,
     updatedAt |-> t]

\* The schema's validators, which Transaction.create runs
SchemaValid(doc) == doc.type \in Kinds

CreateStatus(body) ==
    IF ~Truthy(body, "title") \/ ~Has(body, "amount") \/ ~Truthy(body, "type")
    THEN 400
    ELSE IF ~SchemaValid([type |-> body.type]) THEN 500
    ELSE 201

CreateTransaction(u, body) ==
    /\ nextId <= MaxRecords
    /\ LET st == CreateStatus(body) IN
        /\ resp' = [op |-> "create", caller |-> u, id |-> nextId, status |-> st]
        /\ IF st = 201
           THEN /\ store' = (nextId :> NewDocument(u, body, now)) @@ store
                /\ creator' = (nextId :> u) @@ creator
                /\ nextId' = nextId + 1
                /\ req' = [r \in Reqs |-> Outdated(req[r])]
                /\ enum' = NoEnum
           ELSE UNCHANGED <<store, creator, nextId, req, enum>>
    /\ UNCHANGED <<now, log>>

CreateFails ==
    /\ resp' = [op |-> "create", status |-> 500]
    /\ UNCHANGED <<store, creator, nextId, now, req, enum, log>>

----------------------------------------------------------------------------
(* The checks shared by getTransactionById, updateTransaction and          *)
(* deleteTransaction: id shape, then existence, then ownership             *)

\* The checks with existence looked up before the id shape
OwnershipCheckExistenceFirst(st, id, u) ==
    IF id \notin DOMAIN st THEN 404
    ELSE IF ~IsValidObjectId(id) THEN 400
    ELSE IF st[id].userId # u THEN 403
    ELSE 200

OwnershipCheckMissing(st, id, u) ==
    IF ~IsValidObjectId(id) THEN 400
    ELSE IF id \notin DOMAIN st THEN 404
    ELSE 200

OwnershipCheck(st, id, u) ==
    IF ~IsValidObjectId(id) THEN 400
    ELSE IF id \notin DOMAIN st THEN 404
    ELSE IF st[id].userId # u THEN 403
    ELSE 200

\* What findById saw, kept with the response
Read(id) ==
    [existed |-> id \in DOMAIN store,
     owner |-> IF id \in DOMAIN store THEN store[id].userId ELSE "nobody"]

GetTransactionById(u, id) ==
    /\ resp' = [op |-> "getById", caller |-> u, id |-> id,
                status |-> OwnershipCheck(store, id, u), read |-> Read(id)]
    /\ UNCHANGED <<store, creator, nextId, now, req, enum, log>>

\* findById rejects (timeout, connection loss): the catch block answers 500.
\* findById is called only with an id that passed isValidObjectId.
FindByIdFails(op, id) ==
    /\ IsValidObjectId(id)
    /\ resp' = [op |-> op, id |-> id, status |-> 500]
    /\ UNCHANGED <<store, creator, nextId, now, req, enum, log>>

----------------------------------------------------------------------------
(* updateTransaction *)

ApplyUpdateOverwrite(doc, body, t) ==
    LET blank == [title |-> "", amount |-> 0, type |-> "",
                  category |-> NoCategory, date |-> t]
    IN  [f \in DOMAIN doc |->
            IF f = "updatedAt" THEN t
            ELSE IF f \in SchemaPaths \ {"userId"}
                 THEN (IF Has(body, f) THEN body[f] ELSE blank[f])
            ELSE doc[f]]

\* findByIdAndUpdate(id, updates, {new: true}): the paths of the schema named
\* in the body are set as given (update validators are off unless
\* runValidators is passed); timestamps sets updatedAt.
ApplyUpdate(doc, body, t) ==
    [f \in DOMAIN doc |->
        IF f = "updatedAt" THEN t
        ELSE IF f \in SchemaPaths /\ Has(body, f) THEN body[f]
        ELSE doc[f]]

\* The store refuses an update that would change the immutable _id
ChangesId(id, body) == Has(body, "_id") /\ body["_id"] # id

UpdateTransactionFind(r, u, id) ==
    /\ req[r] = Idle
    /\ LET st == OwnershipCheck(store, id, u) IN
        IF st = 200
        THEN /\ req' = [req EXCEPT ![r] =
                    [op |-> "update", caller |-> u, id |-> id, read |-> Read(id)]]
             /\ resp' = NoResp
        ELSE /\ resp' = [op |-> "update", caller |-> u, id |-> id, status |-> st,
                         read |-> Read(id)]
             /\ UNCHANGED req
    /\ UNCHANGED <<store, creator, nextId, now, enum, log>>

\* The history of writes, if it is kept: which request wrote what to which
\* record, what the record was before and after, how the request was
\* answered, and which other updates of the record were suspended meanwhile
Logged(entry) ==
    IF log.on THEN [log EXCEPT !.writes = Append(@, entry)] ELSE log

UpdateTransactionWrite(r, body) ==
    /\ req[r].op = "update"
    /\ LET id == req[r].id
           found == id \in DOMAIN store
           base == [op |-> "update", caller |-> req[r].caller, id |-> id,
                    read |-> req[r].read]
           status == IF ChangesId(id, body) THEN 500 ELSE 200
           updated == IF found /\ status = 200
                      THEN ApplyUpdate(store[id], body, now)
                      ELSE <<>>
       IN
        /\ IF status = 500
           THEN /\ resp' = base @@ [status |-> 500]
                /\ req' = [req EXCEPT ![r] = Idle]
                /\ UNCHANGED <<store, enum>>
           ELSE /\ resp' = base @@
                       [status |-> 200,
                        applied |-> found,
                        ownerAtWrite |-> IF found THEN store[id].userId ELSE "nobody"]
                /\ IF found
                   THEN /\ store' = [store EXCEPT ![id] = updated]
                        /\ req' = [s \in Reqs |-> IF s = r THEN Idle ELSE Outdated(req[s])]
                        /\ enum' = NoEnum
                   ELSE /\ req' = [req EXCEPT ![r] = Idle]
                        /\ UNCHANGED <<store, enum>>
        /\ log' = Logged([slot |-> r, id |-> id, body |-> body, status |-> status,
                          before |-> IF found THEN store[id] ELSE <<>>,
                          after |-> updated,
                          pending |-> {s \in Reqs \ {r} :
                                        req[s].op = "update" /\ req[s].id = id}])
    /\ UNCHANGED <<creator, nextId, now>>

\* The store call of a suspended update or delete rejects: 500
WriteFails(r) ==
    /\ req[r].op \in {"update", "delete"}
    /\ resp' = [op |-> req[r].op, status |-> 500]
    /\ req' = [req EXCEPT ![r] = Idle]
    /\ UNCHANGED <<store, creator, nextId, now, enum, log>>

----------------------------------------------------------------------------
(* deleteTransaction *)

\* deleteTransaction removing the document in the call that looks it up
\* (findByIdAndDelete), with the checks made on what was removed
DeleteTransactionFindRemoves(r, u, id) ==
    /\ req[r] = Idle
    /\ resp' = [op |-> "delete", caller |-> u, id |-> id,
                status |-> OwnershipCheck(store, id, u), read |-> Read(id)]
    /\ store' = [i \in DOMAIN store \ {id} |-> store[i]]
    /\ UNCHANGED <<creator, nextId, now, req, enum, log>>

DeleteTransactionFind(r, u, id) ==
    /\ req[r] = Idle
    /\ LET st == OwnershipCheck(store, id, u) IN
        IF st = 200
        THEN /\ req' = [req EXCEPT ![r] =
                    [op |-> "delete", caller |-> u, id |-> id, read |-> Read(id)]]
             /\ resp' = NoResp
        ELSE /\ resp' = [op |-> "delete", caller |-> u, id |-> id, status |-> st,
                         read |-> Read(id)]
             /\ UNCHANGED req
    /\ UNCHANGED <<store, creator, nextId, now, enum, log>>

RemoveNothing(st, id) == st

\* transaction.deleteOne(): removes the document with the _id of the one that
\* was read, if it is still there
Remove(st, id) == [i \in DOMAIN st \ {id} |-> st[i]]

DeleteTransactionDelete(r) ==
    /\ req[r].op = "delete"
    /\ LET id == req[r].id
           found == id \in DOMAIN store
       IN
        /\ resp' = [op |-> "delete", caller |-> req[r].caller, id |-> id,
                    read |-> req[r].read, status |-> 200,
                    applied |-> found,
                    ownerAtWrite |-> IF found THEN store[id].userId ELSE "nobody"]
        /\ IF found
           THEN /\ store' = Remove(store, id)
                /\ req' = [s \in Reqs |-> IF s = r THEN Idle ELSE Outdated(req[s])]
                /\ enum' = NoEnum
           ELSE /\ req' = [req EXCEPT ![r] = Idle]
                /\ UNCHANGED <<store, enum>>
    /\ UNCHANGED <<creator, nextId, now, log>>

----------------------------------------------------------------------------
(* Requests of the specification of the single-record operations *)

\* ids a request may name: malformed (0), issued, and never issued
IdInputs == 0 .. (MaxRecords + 1)

Coffee == [title |-> "Coffee", amount |-> 1, type |-> "expense", category |-> "Food"]

Salary == [title |-> "Salary", amount |-> MaxAmount, type |-> "income"]

NoTitle == [amount |-> 1, type |-> "expense"]

Gift == [title |-> "Gift", amount |-> 1, type |-> "gift"]

CreateBodies == {Coffee, NoTitle, Gift}

UpdateBodies ==
    {[_id |-> i] : i \in 1 .. 2} \cup {[userId |-> u] : u \in Users}

Next ==
    \/ \E u \in Users, b \in CreateBodies : CreateTransaction(u, b)
    \/ CreateFails
    \/ \E u \in Users, id \in IdInputs : GetTransactionById(u, id)
    \/ \E op \in {"getById", "update", "delete"}, id \in IdInputs : FindByIdFails(op, id)
    \/ \E r \in Reqs, u \in Users, id \in IdInputs : UpdateTransactionFind(r, u, id)
    \/ \E r \in Reqs, b \in UpdateBodies : UpdateTransactionWrite(r, b)
    \/ \E r \in Reqs, u \in Users, id \in IdInputs : DeleteTransactionFind(r, u, id)
    \/ \E r \in Reqs : DeleteTransactionDelete(r)
    \/ \E r \in Reqs : WriteFails(r)

Spec == Init /\ [][Next]_vars

----------------------------------------------------------------------------
(* getTransactions: query parameters *)

\* A query parameter is the sequence of its characters; Undefined is a
\* parameter the URL does not carry.
Undefined == <<"undefined">>

DefaultPage == <<"1">>

DefaultLimit == <<"2", "0">>

OrDefault(v, d) == IF v = Undefined THEN d ELSE v

\* The value JavaScript numbers take when parseInt finds no digits
NaN == -1000000

Digits == <<"0", "1", "2", "3", "4", "5", "6", "7", "8", "9">>

IsDigit(c) == \E i \in 1 .. 10 : Digits[i] = c

DigitValue(c) == (CHOOSE i \in 1 .. 10 : Digits[i] = c) - 1

\* The value of the longest prefix of digits of cs from position i on, after
\* the digits read so far gave acc; NaN if there is no digit at all
RECURSIVE ReadDigits(_, _, _, _)
ReadDigits(cs, i, acc, any) ==
    IF i <= Len(cs) /\ IsDigit(cs[i])
    THEN ReadDigits(cs, i + 1, 10 * acc + DigitValue(cs[i]), TRUE)
    ELSE IF any THEN acc ELSE NaN

\* parseInt(cs, 10): an optional sign, then the longest prefix of digits
ParseInt(cs) ==
    IF cs # <<>> /\ cs[1] = "-"
    THEN LET v == ReadDigits(cs, 2, 0, FALSE) IN IF v = NaN THEN NaN ELSE 0 - v
    ELSE IF cs # <<>> /\ cs[1] = "+" THEN ReadDigits(cs, 2, 0, FALSE)
    ELSE ReadDigits(cs, 1, 0, FALSE)

\* Math.max: NaN if either argument is NaN
MathMax(a, b) == IF a = NaN \/ b = NaN THEN NaN ELSE IF a >= b THEN a ELSE b

PageNum(q) == MathMax(1, ParseInt(OrDefault(q.page, DefaultPage)))

Lim(q) == MathMax(1, ParseInt(OrDefault(q.limit, DefaultLimit)))

\* Math.ceil(total / lim) for total >= 0 and lim >= 1; NaN for lim NaN
MathCeilDivFloor(total, lim) == IF lim = NaN THEN NaN ELSE total \div lim

MathCeilDiv(total, lim) ==
    IF lim = NaN THEN NaN
    ELSE IF total % lim = 0 THEN total \div lim ELSE (total \div lim) + 1

----------------------------------------------------------------------------
(* getTransactions: filter, sort, skip, limit *)

NoDate == -1

MatchesAfterStart(doc, u, q) ==
    /\ doc.userId = u
    /\ q.type # "" => doc.type = q.type
    /\ q.category # "" => doc.category = q.category
    /\ q.startDate # NoDate => doc.date > q.startDate
    /\ q.endDate # NoDate => doc.date <= q.endDate

\* The filter object: the owner, and one entry per truthy query parameter
Matches(doc, u, q) ==
    /\ doc.userId = u
    /\ q.type # "" => doc.type = q.type
    /\ q.category # "" => doc.category = q.category
    /\ q.startDate # NoDate => doc.date >= q.startDate
    /\ q.endDate # NoDate => doc.date <= q.endDate

Matching(st, u, q) == {id \in DOMAIN st : Matches(st[id], u, q)}

\* The filter parameters of a query, without its page and page size
FilterOf(q) ==
    [type |-> q.type, category |-> q.category,
     startDate |-> q.startDate, endDate |-> q.endDate]

RECURSIVE Orderings(_)
Orderings(S) ==
    IF S = {} THEN {<<>>}
    ELSE UNION {{<<x>> \o p : p \in Orderings(S \ {x})} : x \in S}

\* sort({date: -1}): date descending; the store fixes no order among
\* documents with equal date, so each query gets any such order
SortedByDateDesc(st, S) ==
    {p \in Orderings(S) :
        \A i \in 1 .. Len(p), j \in 1 .. Len(p) :
            i < j => st[p[i]].date >= st[p[j]].date}

Skip(p, k) == SubSeq(p, k + 1, Len(p))

Limit(p, l) == SubSeq(p, 1, IF l < Len(p) THEN l ELSE Len(p))

\* The pages a client has collected: the page just received is added if it
\* belongs to the same enumeration (same caller, filter and page size)
Collect(key, page, ids) ==
    IF enum.key = key
    THEN [key |-> key, got |-> (page :> ids) @@ enum.got]
    ELSE [key |-> key, got |-> (page :> ids)]

Range(p) == {p[i] : i \in 1 .. Len(p)}

GetTransactionsCount(r, u, q) ==
    /\ req[r] = Idle
    /\ req' = [req EXCEPT ![r] =
            [op |-> "list", caller |-> u, q |-> q,
             pageNum |-> PageNum(q), lim |-> Lim(q),
             total |-> Cardinality(Matching(store, u, q)),
             dirty |-> FALSE]]
    /\ resp' = NoResp
    /\ UNCHANGED <<store, creator, nextId, now, enum, log>>

\* countDocuments rejects: 500
GetTransactionsCountFails ==
    /\ resp' = [op |-> "list", status |-> 500, storeFailed |-> TRUE]
    /\ UNCHANGED <<store, creator, nextId, now, req, enum, log>>

GetTransactionsFind(r, collect) ==
    /\ req[r].op = "list"
    /\ LET s == req[r] IN
        IF s.pageNum = NaN \/ s.lim = NaN
        THEN \* the store rejects a skip or limit that is not a number
             /\ resp' = [op |-> "list", status |-> 500, storeFailed |-> FALSE]
             /\ UNCHANGED enum
        ELSE \E p \in SortedByDateDesc(store, Matching(store, s.caller, s.q)) :
                LET ids == Limit(Skip(p, (s.pageNum - 1) * s.lim), s.lim) IN
                /\ resp' = [op |-> "list", status |-> 200, caller |-> s.caller,
                            q |-> s.q, transactions |-> ids, total |-> s.total,
                            page |-> s.pageNum, lim |-> s.lim,
                            pages |-> MathCeilDiv(s.total, s.lim),
                            dirty |-> s.dirty]
                /\ enum' = IF collect /\ ~s.dirty
                           THEN Collect(<<s.caller, FilterOf(s.q), s.lim>>, s.pageNum, Range(ids))
                           ELSE NoEnum
    /\ req' = [req EXCEPT ![r] = Idle]
    /\ UNCHANGED <<store, creator, nextId, now, log>>

\* find rejects: 500
GetTransactionsFindFails(r) ==
    /\ req[r].op = "list"
    /\ resp' = [op |-> "list", status |-> 500, storeFailed |-> TRUE]
    /\ req' = [req EXCEPT ![r] = Idle]
    /\ UNCHANGED <<store, creator, nextId, now, enum, log>>

----------------------------------------------------------------------------
(* Requests of the specification of list under concurrent creates *)

PageInputs ==
    {Undefined, <<"2">>, <<"0">>, <<"-", "3">>, <<"a", "b", "c">>, <<"2", "x">>}

LimitInputs == {Undefined, <<"1">>, <<"2">>, <<"0">>, <<>>}

Query(page, limit, type) ==
    [type |-> type, category |-> "", page |-> page, limit |-> limit,
     startDate |-> NoDate, endDate |-> NoDate]

NextList ==
    \/ \E u \in Users, b \in {Coffee, Salary} : CreateTransaction(u, b)
    \/ \E u \in Users, pg \in PageInputs, lm \in LimitInputs :
            GetTransactionsCount(1, u, Query(pg, lm, ""))
    \/ GetTransactionsCountFails
    \/ GetTransactionsFind(1, FALSE)
    \/ GetTransactionsFindFails(1)

SpecList == Init /\ [][NextList]_vars

----------------------------------------------------------------------------
(* Enumeration of the pages of a record set that does not change *)

MaxPageRecords == 3     \* records in the collection
MaxPage == 3            \* page numbers asked for are 1..MaxPage

Document(u, k, d) ==
    [userId |-> u, title |-> "Coffee", amount |-> 1, type |-> k,
     category |-> "Food", date |-> d, createdAt |-> d, updatedAt |-> d]

\* Two days; several records can fall on the same day
PageDates == {At(EpochYear, 1, 10, 0), At(EpochYear, 1, 11, 0)}

PageDocuments == {Document(u, "expense", d) : u \in Users, d \in PageDates}

Numeral(n) == <<Digits[n + 1]>>

InitPages ==
    /\ store \in [1 .. MaxPageRecords -> PageDocuments]
    /\ nextId = MaxPageRecords + 1
    /\ creator = [id \in 1 .. MaxPageRecords |-> store[id].userId]
    /\ now = At(EpochYear, 7, 31, 1)
    /\ req = [r \in Reqs |-> Idle]
    /\ resp = NoResp
    /\ enum = NoEnum
    /\ log = NoLog

NextPages ==
    \/ \E u \in Users, pg \in 1 .. MaxPage, lm \in 1 .. 2 :
            GetTransactionsCount(1, u, Query(Numeral(pg), Numeral(lm), ""))
    \/ GetTransactionsFind(1, TRUE)

SpecPages == InitPages /\ [][NextPages]_vars

----------------------------------------------------------------------------
(* list with filter parameters over a record set that does not change *)

MaxFilterRecords == 2   \* records in the collection

FilterDates == {At(EpochYear, 3, 1, 0), At(EpochYear, 3, 2, 0)}

FilterDocuments ==
    {[Document(u, k, d) EXCEPT !.category = c] :
        u \in Users, k \in Kinds, c \in {"Food", NoCategory}, d \in FilterDates}

\* A query with the default page and page size; "" is a type or category the
\* URL does not carry (or carries empty), NoDate a bound it does not carry
FilterQuery(type, category, startDate, endDate) ==
    [type |-> type, category |-> category, page |-> Undefined, limit |-> Undefined,
     startDate |-> startDate, endDate |-> endDate]

FilterQueries ==
    {FilterQuery(k, c, s, e) :
        k \in {"", "expense"}, c \in {"", "Food"},
        s \in {NoDate, At(EpochYear, 3, 2, 0)}, e \in {NoDate, At(EpochYear, 3, 1, 0)}}

InitFilter ==
    /\ store \in [1 .. MaxFilterRecords -> FilterDocuments]
    /\ nextId = MaxFilterRecords + 1
    /\ creator = [id \in 1 .. MaxFilterRecords |-> store[id].userId]
    /\ now = At(EpochYear, 7, 31, 1)
    /\ req = [r \in Reqs |-> Idle]
    /\ resp = NoResp
    /\ enum = NoEnum
    /\ log = NoLog

NextFilter ==
    \/ \E q \in FilterQueries : GetTransactionsCount(1, "u1", q)
    \/ GetTransactionsFind(1, FALSE)

SpecFilter == InitFilter /\ [][NextFilter]_vars

----------------------------------------------------------------------------
(* getSummary *)

WindowMonthsBack == 5

CategoryLimit == 10

RECURSIVE SumAmounts(_, _)
SumAmounts(st, S) ==
    IF S = {} THEN 0
    ELSE LET id == CHOOSE i \in S : TRUE
         IN  st[id].amount + SumAmounts(st, S \ {id})

OwnedBy(st, u) == {id \in DOMAIN st : st[id].userId = u}

\* startDate: now, setMonth(getMonth() - 5), setHours(0, 0, 0, 0)
StartDate(t) == SetHoursZero(SetMonth(t, (MonthOf(t) - 1) - WindowMonthsBack))

KeyBefore(a, b) == a[1] < b[1] \/ (a[1] = b[1] /\ a[2] < b[2])

\* $sort {"_id.year": 1, "_id.month": 1}
RECURSIVE SortKeys(_)
SortKeys(K) ==
    IF K = {} THEN <<>>
    ELSE LET k == CHOOSE a \in K : \A b \in K \ {a} : KeyBefore(a, b)
         IN  <<k>> \o SortKeys(K \ {k})

\* $project year and month, $group by both with the two conditional sums
MonthlyOf(st, S) ==
    LET key(id) == <<YearOf(st[id].date), MonthOf(st[id].date)>>
        keys == SortKeys({key(id) : id \in S})
        bucket(k) ==
            [year |-> k[1], month |-> k[2],
             income |-> SumAmounts(st, {id \in S : key(id) = k /\ st[id].type = "income"}),
             expense |-> SumAmounts(st, {id \in S : key(id) = k /\ st[id].type = "expense"})]
    IN  [i \in 1 .. Len(keys) |-> bucket(keys[i])]

\* The first aggregate: $match {userId, date: {$gte: startDate}}
Monthly(st, u, t) ==
    LET startDate == StartDate(t)
    IN  MonthlyOf(st, {id \in OwnedBy(st, u) : st[id].date >= startDate})

\* The orders $sort {total: -1} can give the groups of T (group -> total):
\* a group of greatest total first; groups of equal total come in any order
RECURSIVE DescendingOrders(_)
DescendingOrders(T) ==
    IF DOMAIN T = {} THEN {<<>>}
    ELSE LET top == {c \in DOMAIN T : \A d \in DOMAIN T : T[c] >= T[d]}
         IN  UNION {{<<c>> \o p :
                        p \in DescendingOrders([d \in DOMAIN T \ {c} |-> T[d]])} :
                    c \in top}

CategoryTotalsAscending(st, u) ==
    LET cats == {st[id].category : id \in OwnedBy(st, u)}
        total(c) == SumAmounts(st, {id \in OwnedBy(st, u) : st[id].category = c})
    IN  {[i \in 1 .. (IF Len(p) < CategoryLimit THEN Len(p) ELSE CategoryLimit) |->
            [category |-> p[i], total |-> total(p[i])]] :
         p \in DescendingOrders([c \in cats |-> 0 - total(c)])}

\* The second aggregate: $group by category, $sort {total: -1}, $limit 10
CategoryTotals(st, u) ==
    LET cats == {st[id].category : id \in OwnedBy(st, u)}
        total(c) == SumAmounts(st, {id \in OwnedBy(st, u) : st[id].category = c})
    IN  {[i \in 1 .. (IF Len(p) < CategoryLimit THEN Len(p) ELSE CategoryLimit) |->
            [category |-> p[i], total |-> total(p[i])]] :
         p \in DescendingOrders([c \in cats |-> total(c)])}

\* The third aggregate: $group by type; then find(...)?.total || 0
TotalOfType(st, u, k) ==
    SumAmounts(st, {id \in OwnedBy(st, u) : st[id].type = k})

GetSummaryMonthly(r, u) ==
    /\ req[r] = Idle
    /\ req' = [req EXCEPT ![r] =
            [op |-> "summary", pc |-> "category", caller |-> u, at |-> now,
             monthly |-> Monthly(store, u, now), category |-> <<>>,
             dirty |-> FALSE]]
    /\ resp' = NoResp
    /\ UNCHANGED <<store, creator, nextId, now, enum, log>>

GetSummaryCategory(r) ==
    /\ req[r].op = "summary"
    /\ req[r].pc = "category"
    /\ \E c \in CategoryTotals(store, req[r].caller) :
            req' = [req EXCEPT ![r].pc = "totals", ![r].category = c]
    /\ resp' = NoResp
    /\ UNCHANGED <<store, creator, nextId, now, enum, log>>

GetSummaryTotals(r) ==
    /\ req[r].op = "summary"
    /\ req[r].pc = "totals"
    /\ resp' = [op |-> "summary", status |-> 200, caller |-> req[r].caller,
                at |-> req[r].at, monthly |-> req[r].monthly,
                category |-> req[r].category,
                totalIncome |-> TotalOfType(store, req[r].caller, "income"),
                totalExpense |-> TotalOfType(store, req[r].caller, "expense"),
                dirty |-> req[r].dirty]
    /\ req' = [req EXCEPT ![r] = Idle]
    /\ UNCHANGED <<store, creator, nextId, now, enum, log>>

\* The first aggregate rejects: 500
GetSummaryFailsAtOnce ==
    /\ resp' = [op |-> "summary", status |-> 500]
    /\ UNCHANGED <<store, creator, nextId, now, req, enum, log>>

GetSummaryRetries(r) ==
    /\ req[r].op = "summary"
    /\ resp' = NoResp
    /\ UNCHANGED <<store, creator, nextId, now, req, enum, log>>

\* The second or third aggregate rejects: 500
GetSummaryFails(r) ==
    /\ req[r].op = "summary"
    /\ resp' = [op |-> "summary", status |-> 500]
    /\ req' = [req EXCEPT ![r] = Idle]
    /\ UNCHANGED <<store, creator, nextId, now, enum, log>>

\* Time passes
AdvanceClock(t) ==
    /\ t > now
    /\ now' = t
    /\ resp' = NoResp
    /\ UNCHANGED <<store, creator, nextId, req, enum, log>>

----------------------------------------------------------------------------
(* Requests of the specification of summary *)

\* The clock starts on 31 July, 12:00, and is later read on 15 October, 12:00
Instants == {At(EpochYear, 10, 15, 1)}

\* Dates of records around the starts of the windows of both instants
SummaryDates ==
    {At(EpochYear, 4, 20, 0), At(EpochYear, 5, 14, 1), At(EpochYear, 5, 15, 0)}

SummaryBodies ==
    {[title |-> "Coffee", amount |-> 1, type |-> "expense", date |-> d] :
        d \in SummaryDates}
    \cup {Salary}

NextSummary ==
    \/ \E b \in SummaryBodies : CreateTransaction("u1", b)
    \/ CreateTransaction("u2", Salary)
    \/ \E id \in 1 .. MaxRecords : UpdateTransactionFind(2, "u1", id)
    \/ \E b \in {[type |-> "gift"], [amount |-> MaxAmount]} : UpdateTransactionWrite(2, b)
    \/ \E id \in 1 .. MaxRecords : DeleteTransactionFind(2, "u1", id)
    \/ DeleteTransactionDelete(2)
    \/ \E u \in Users : GetSummaryMonthly(1, u)
    \/ GetSummaryCategory(1)
    \/ GetSummaryTotals(1)
    \/ GetSummaryFailsAtOnce
    \/ GetSummaryFails(1)
    \/ \E t \in Instants : AdvanceClock(t)

SpecSummary == Init /\ [][NextSummary]_vars

----------------------------------------------------------------------------
(* summary over a collection with more categories than the category limit *)

CategoryNames ==
    <<"Food", "Rent", "Fuel", "Phone", "Books",
      "Gym", "Gifts", "Travel", "Health", "Pets">>

\* u1 has one record in each of CategoryLimit categories, with amounts 1, 2,
\* ..., then a record without category and a second record in the last
\* category; u2 has one record in the first category
CategoryDocument(i) ==
    LET d == At(EpochYear, 7, 1, 0)
        k == IF i % 2 = 0 THEN "income" ELSE "expense"
        c == IF i <= CategoryLimit THEN CategoryNames[i]
             ELSE IF i = CategoryLimit + 1 THEN NoCategory
             ELSE IF i = CategoryLimit + 2 THEN CategoryNames[CategoryLimit]
             ELSE CategoryNames[1]
        u == IF i <= CategoryLimit + 2 THEN "u1" ELSE "u2"
    IN  [Document(u, k, d) EXCEPT !.category = c, !.amount = i]

InitCategories ==
    /\ store = [i \in 1 .. (CategoryLimit + 3) |-> CategoryDocument(i)]
    /\ nextId = CategoryLimit + 4
    /\ creator = [i \in 1 .. (CategoryLimit + 3) |-> store[i].userId]
    /\ now = At(EpochYear, 7, 31, 1)
    /\ req = [r \in Reqs |-> Idle]
    /\ resp = NoResp
    /\ enum = NoEnum
    /\ log = NoLog

\* u1 changes the amounts of the two records with the smallest amounts,
\* which makes totals equal around the cut of the category list
NextCategories ==
    \/ \E id \in 1 .. 2 : UpdateTransactionFind(2, "u1", id)
    \/ \E a \in 1 .. MaxAmount : UpdateTransactionWrite(2, [amount |-> a])
    \/ \E u \in Users : GetSummaryMonthly(1, u)
    \/ GetSummaryCategory(1)
    \/ GetSummaryTotals(1)

SpecCategories == InitCategories /\ [][NextCategories]_vars

----------------------------------------------------------------------------
(* getAnalytics *)

MonthNames ==
    <<"Jan", "Feb", "Mar", "Apr", "May", "Jun",
      "Jul", "Aug", "Sep", "Oct", "Nov", "Dec">>

\* new Date(t.date).toLocaleString("default", {month: "short"})
MonthShort(t) == MonthNames[MonthOf(t)]

\* monthly[month] starts as {income: 0, expense: 0}; monthly[month][t.type]
\* += t.amount adds to one of the two, and for any other type makes a further
\* key whose value is undefined + amount, which is NaN
AnalyticsMonthly(st, S) ==
    [m \in {MonthShort(st[id].date) : id \in S} |->
        LET of == {id \in S : MonthShort(st[id].date) = m} IN
        [k \in Kinds \cup {st[id].type : id \in of} |->
            IF k \in Kinds THEN SumAmounts(st, {id \in of : st[id].type = k})
            ELSE NaN]]

\* t.category || "Uncategorized": an unset and an empty category are falsy
CategoryLabel(c) == IF c \in {NoCategory, ""} THEN "Uncategorized" ELSE c

AnalyticsCategoryTotalsAllKinds(st, S) ==
    [c \in {CategoryLabel(st[id].category) : id \in S} |->
        SumAmounts(st, {id \in S : CategoryLabel(st[id].category) = c})]

\* The second forEach: only for t.type === "expense"
AnalyticsCategoryTotals(st, S) ==
    LET exp == {id \in S : st[id].type = "expense"} IN
    [c \in {CategoryLabel(st[id].category) : id \in exp} |->
        SumAmounts(st, {id \in exp : CategoryLabel(st[id].category) = c})]

GetAnalytics(u) ==
    /\ resp' = [op |-> "analytics", status |-> 200, caller |-> u,
                monthly |-> AnalyticsMonthly(store, OwnedBy(store, u)),
                categoryTotals |-> AnalyticsCategoryTotals(store, OwnedBy(store, u))]
    /\ UNCHANGED <<store, creator, nextId, now, req, enum, log>>

\* find rejects: 500 "Failed to load analytics"
GetAnalyticsFails ==
    /\ resp' = [op |-> "analytics", status |-> 500]
    /\ UNCHANGED <<store, creator, nextId, now, req, enum, log>>

----------------------------------------------------------------------------
(* Requests of the specification of analytics *)

\* January of two years and February of one
AnalyticsDates ==
    {At(EpochYear, 1, 10, 0), At(EpochYear + 1, 1, 20, 0), At(EpochYear, 2, 10, 0)}

\* Bodies of either kind, without category, with an empty and with a named one
AnalyticsBodies ==
    {[title |-> "Coffee", amount |-> a, type |-> k, date |-> d] :
        a \in {MaxAmount}, k \in Kinds, d \in AnalyticsDates}
    \cup {[title |-> "Coffee", amount |-> 1, type |-> k, category |-> c, date |-> d] :
            k \in Kinds, d \in AnalyticsDates, c \in {"", "Food"}}

NextAnalytics ==
    \/ \E b \in AnalyticsBodies : CreateTransaction("u1", b)
    \/ CreateTransaction("u2", Coffee)
    \/ \E id \in 1 .. MaxRecords : UpdateTransactionFind(2, "u1", id)
    \/ UpdateTransactionWrite(2, [type |-> "gift"])
    \/ \E u \in Users : GetAnalytics(u)
    \/ GetAnalyticsFails

SpecAnalytics == Init /\ [][NextAnalytics]_vars

----------------------------------------------------------------------------
(* protect: the middleware every transaction route runs before its handler *)

\* A user id that a validly signed token can carry although the User
\* collection holds no such user (the account was removed after sign-in)
GoneUser == "u0"

\* The Authorization header of a request: the scheme, whether a token follows
\* the scheme, whether jwt.verify accepts the token, whether its payload is
\* an object with an id, and that id
NoHeader == [id |-> "", scheme |-> "", token |-> FALSE, verifies |-> FALSE, hasId |-> FALSE]

Bearer(token, verifies, hasId, id) ==
    [id |-> id, scheme |-> "Bearer", token |-> token, verifies |-> verifies, hasId |-> hasId]

Credentials ==
    {NoHeader,
     [id |-> "u1", scheme |-> "Basic", token |-> TRUE, verifies |-> TRUE, hasId |-> TRUE],
     Bearer(FALSE, FALSE, FALSE, ""),
     Bearer(TRUE, FALSE, TRUE, "u1"),
     Bearer(TRUE, TRUE, FALSE, "")}
    \cup {Bearer(TRUE, TRUE, TRUE, u) : u \in Users \cup {GoneUser}}

\* The status protect answers with, or 0 if it calls next()
ProtectAnyId(c) ==
    IF c.scheme # "Bearer" THEN 401
    ELSE IF ~c.token THEN 401
    ELSE IF ~c.verifies THEN 401
    ELSE IF ~c.hasId THEN 401
    ELSE 0

Protect(c) ==
    IF c.scheme # "Bearer" THEN 401
    ELSE IF ~c.token THEN 401
    ELSE IF ~c.verifies THEN 401
    ELSE IF ~c.hasId THEN 401
    ELSE IF c.id \notin Users THEN 401
    ELSE 0

\* protect called next(): req.user is the user of the token
Authenticated(c) == Protect(c) = 0

\* protect answered 401 itself: the handler of the route is not called
ProtectRejects(c) ==
    /\ Protect(c) = 401
    /\ resp' = [op |-> "protect", status |-> 401, cred |-> c]
    /\ UNCHANGED <<store, creator, nextId, now, req, enum, log>>

\* User.findById rejects: the catch block of protect answers 401
ProtectFails ==
    /\ resp' = [op |-> "protect", status |-> 401]
    /\ UNCHANGED <<store, creator, nextId, now, req, enum, log>>

----------------------------------------------------------------------------
(* The seven transaction routes, each behind protect; one request at a time *)

NoFilter == Query(Undefined, Undefined, "")

NextRoutes ==
    \/ \E c \in Credentials : ProtectRejects(c)
    \/ ProtectFails
    \/ \E c \in Credentials, b \in CreateBodies :
            Authenticated(c) /\ CreateTransaction(c.id, b)
    \/ CreateFails
    \/ \E c \in Credentials, id \in IdInputs :
            Authenticated(c) /\ GetTransactionById(c.id, id)
    \/ \E op \in {"getById", "update", "delete"}, id \in IdInputs : FindByIdFails(op, id)
    \/ \E c \in Credentials, id \in IdInputs :
            Authenticated(c) /\ UpdateTransactionFind(1, c.id, id)
    \/ UpdateTransactionWrite(1, [amount |-> MaxAmount])
    \/ \E c \in Credentials, id \in IdInputs :
            Authenticated(c) /\ DeleteTransactionFind(1, c.id, id)
    \/ DeleteTransactionDelete(1)
    \/ WriteFails(1)
    \/ \E c \in Credentials : Authenticated(c) /\ GetTransactionsCount(1, c.id, NoFilter)
    \/ GetTransactionsCountFails
    \/ GetTransactionsFind(1, FALSE)
    \/ GetTransactionsFindFails(1)
    \/ \E c \in Credentials : Authenticated(c) /\ GetSummaryMonthly(1, c.id)
    \/ GetSummaryCategory(1)
    \/ GetSummaryTotals(1)
    \/ GetSummaryFailsAtOnce
    \/ GetSummaryFails(1)
    \/ \E c \in Credentials : Authenticated(c) /\ GetAnalytics(c.id)
    \/ GetAnalyticsFails

SpecRoutes == Init /\ [][NextRoutes]_vars

----------------------------------------------------------------------------
(* One owner's records from create to delete, with every read operation *)

NextLife ==
    \/ CreateTransaction("u1", Coffee)
    \/ \E id \in 1 .. MaxRecords : GetTransactionById("u1", id)
    \/ \E r \in Reqs, id \in 1 .. MaxRecords : UpdateTransactionFind(r, "u1", id)
    \/ \E r \in Reqs : UpdateTransactionWrite(r, [amount |-> MaxAmount])
    \/ \E r \in Reqs, id \in 1 .. MaxRecords : DeleteTransactionFind(r, "u1", id)
    \/ \E r \in Reqs : DeleteTransactionDelete(r)
    \/ GetTransactionsCount(1, "u1", NoFilter)
    \/ GetTransactionsFind(1, FALSE)
    \/ GetSummaryMonthly(1, "u1")
    \/ GetSummaryCategory(1)
    \/ GetSummaryTotals(1)
    \/ GetAnalytics("u1")

SpecLife == Init /\ [][NextLife]_vars

----------------------------------------------------------------------------
(* Concurrent updates of one record by its owner, with the history of writes *)

MaxRaceWrites == 2      \* no update starts after this many writes

RaceBodies ==
    {[amount |-> MaxAmount],
     [title |-> "Tea", amount |-> 1],
     [title |-> "Bus", category |-> "Travel"]}

\* u1 has created one record; the history of writes is kept
InitRace ==
    /\ store = (1 :> NewDocument("u1", Coffee, At(EpochYear, 7, 31, 1)))
    /\ nextId = 2
    /\ creator = (1 :> "u1")
    /\ now = At(EpochYear, 7, 31, 1)
    /\ req = [r \in Reqs |-> Idle]
    /\ resp = NoResp
    /\ enum = NoEnum
    /\ log = [on |-> TRUE, writes |-> <<>>]

NextRace ==
    \/ \E r \in Reqs :
            Len(log.writes) < MaxRaceWrites /\ UpdateTransactionFind(r, "u1", 1)
    \/ \E r \in Reqs, b \in RaceBodies : UpdateTransactionWrite(r, b)
    \/ \E t \in Instants : AdvanceClock(t)

SpecRace == InitRace /\ [][NextRace]_vars

----------------------------------------------------------------------------
(* Claims about the single-record operations, checked under Spec *)

\* C1: for getById, update and delete with a well-formed id whose store calls
\* did not fail: if findById saw no record the answer is 404 whatever the
\* caller; if it saw a record of another owner the answer is 403; if it saw a
\* record of the caller the operation proceeds and is answered 200.
OwnershipOutcome ==
    (/\ resp.op \in {"getById", "update", "delete"}
     /\ resp.status # 500
     /\ IsValidObjectId(resp.id))
    => /\ ~resp.read.existed => resp.status = 404
       /\ resp.read.existed /\ resp.read.owner # resp.caller => resp.status = 403
       /\ resp.read.existed /\ resp.read.owner = resp.caller => resp.status = 200

\* C1 witness: an update of an existing record by another user was answered 403
ForeignUpdateAnswered ==
    /\ resp.op = "update"
    /\ resp.status = 403
    /\ resp.read.existed
    /\ resp.read.owner # resp.caller

\* C2: every write that update or delete applies to a record is issued by a
\* caller who is the record's owner at the moment the write is applied.
WriteByOwnerAtWrite ==
    (/\ resp.op \in {"update", "delete"}
     /\ resp.status = 200
     /\ resp.applied)
    => resp.ownerAtWrite = resp.caller

\* C3: every stored record's ownerId is the caller whose create produced it.
OwnerFixedAtCreation ==
    \A id \in DOMAIN store : store[id].userId = creator[id]

\* C4: every stored record's kind is income or expense (checked under
\* SpecSummary, whose updates name the kind).
KindClosed ==
    \A id \in DOMAIN store : store[id].type \in Kinds

\* The required input of a create request is there and well-formed
RequiredInputValid(body) ==
    /\ Truthy(body, "title")
    /\ Has(body, "amount")
    /\ Truthy(body, "type")
    /\ body.type \in Kinds

\* C12: a create request whose title is absent or empty, whose amount is
\* absent, or whose kind is absent or outside income / expense is answered 400
\* and leaves the store as it was; a create request with valid required
\* input is answered 201 and adds exactly one record.
CreateValidated ==
    [][\A u \in Users, body \in CreateBodies :
        CreateTransaction(u, body) =>
            IF RequiredInputValid(body)
            THEN /\ resp'.status = 201
                 /\ DOMAIN store \subseteq DOMAIN store'
                 /\ Cardinality(DOMAIN store') = Cardinality(DOMAIN store) + 1
                 /\ \A id \in DOMAIN store : store'[id] = store[id]
            ELSE /\ resp'.status = 400
                 /\ store' = store]_vars

\* C14: an update that is answered 200 and applied to the caller's record
\* sets the fields its body names and updatedAt, and nothing else: the
\* record keeps its id, its ownerId, its createdAt and every field the body
\* does not name, and every other record of the store is as before.
UpdateFrame ==
    [][\A r \in Reqs, body \in UpdateBodies :
        (/\ UpdateTransactionWrite(r, body)
         /\ resp'.status = 200
         /\ resp'.applied
         /\ store[req[r].id].userId = req[r].caller)
        => LET id == req[r].id IN
            /\ DOMAIN store' = DOMAIN store
            /\ \A other \in DOMAIN store \ {id} : store'[other] = store[other]
            /\ store'[id].userId = store[id].userId
            /\ store'[id].createdAt = store[id].createdAt
            /\ store'[id].updatedAt = now
            /\ \A f \in DOMAIN store[id] \ {"updatedAt"} :
                IF Has(body, f) THEN store'[id][f] = body[f]
                ELSE store'[id][f] = store[id][f]]_vars

\* C20: an update request with a well-formed id is answered 200 with the
\* updated record, or 404, or 403, or 500, in every interleaving: it is never
\* answered 200 without a record that its write updated, also when a delete
\* removes the record between the update's check and its write.
UpdateOutcome ==
    (resp.op = "update" /\ resp.status # 500 /\ IsValidObjectId(resp.id))
    => /\ resp.status \in {200, 403, 404}
       /\ resp.status = 200 => resp.applied

\* C22: for getById, update and delete, a malformed id is answered 400 and
\* nothing else, whoever calls and whatever is stored, and it never reaches
\* the store: no answer to it comes from a store call and no request with
\* it waits for a write. A well-formed id that findById does not find is
\* answered 404 whoever calls, and 403 is answered only for a record that
\* findById found and that belongs to another user.
ChecksInOrder ==
    /\ \A r \in Reqs :
        req[r].op \in {"update", "delete"} => IsValidObjectId(req[r].id)
    /\ (resp.op \in {"getById", "update", "delete"} /\ Has(resp, "id")) =>
        /\ resp.status = 400 <=> ~IsValidObjectId(resp.id)
        /\ resp.status = 404 =>
            IsValidObjectId(resp.id) /\ ~resp.read.existed
        /\ resp.status = 403 =>
            /\ IsValidObjectId(resp.id)
            /\ resp.read.existed
            /\ resp.read.owner # resp.caller
        /\ (/\ IsValidObjectId(resp.id)
            /\ resp.status # 500
            /\ ~resp.read.existed) => resp.status = 404

\* C22 witness: a delete with a malformed id, sent while records of both
\* users are stored, was answered 400
MalformedDeleteAnswered ==
    /\ resp.op = "delete"
    /\ ~IsValidObjectId(resp.id)
    /\ resp.status = 400
    /\ {store[i].userId : i \in DOMAIN store} = Users

----------------------------------------------------------------------------
(* Claims about the life of a record, checked under SpecLife *)

\* The records that were created and are no longer stored
Deleted == DOMAIN creator \ DOMAIN store

RECURSIVE SumTotals(_)
SumTotals(groups) ==
    IF groups = <<>> THEN 0 ELSE Head(groups).total + SumTotals(Tail(groups))

RECURSIVE SumBuckets(_, _)
SumBuckets(monthly, M) ==
    IF M = {} THEN 0
    ELSE LET m == CHOOSE x \in M : TRUE
         IN  monthly[m].income + monthly[m].expense + SumBuckets(monthly, M \ {m})

\* What the latest response shows of deleted records
AfterDelete ==
    /\ (resp.op = "delete" /\ resp.status = 200) => resp.id \in Deleted
    /\ (/\ resp.op \in {"getById", "update", "delete"}
        /\ resp.id \in Deleted
        /\ ~resp.read.existed)
       => resp.status = 404
    /\ resp.op = "list" => Range(resp.transactions) \cap Deleted = {}
    /\ resp.op = "summary" =>
        LET stored == SumAmounts(store, OwnedBy(store, resp.caller)) IN
        /\ resp.totalIncome + resp.totalExpense = stored
        /\ ~resp.dirty => SumTotals(resp.category) = stored
    /\ resp.op = "analytics" =>
        SumBuckets(resp.monthly, DOMAIN resp.monthly)
            = SumAmounts(store, OwnedBy(store, resp.caller))

\* C11: a record that a delete removed stays removed whatever happens next;
\* a delete answered 200 leaves no record of that id; every getById, update
\* or delete whose findById runs after the delete is answered 404; a list
\* returns no deleted record, and the amounts summary and analytics report
\* add up to the amounts of the records still stored.
DeleteIsTerminal == [][Deleted \subseteq Deleted' /\ AfterDelete']_vars

\* C11 witness: with another record still stored, getById of a deleted
\* record was answered 404
DeletedNotFound ==
    /\ resp.op = "getById"
    /\ resp.id \in Deleted
    /\ resp.status = 404
    /\ DOMAIN store # {}

----------------------------------------------------------------------------
(* Claims about the routes, checked under SpecRoutes *)

Operations ==
    {"create", "list", "getById", "update", "delete", "summary", "analytics"}

\* The first store call of a request rejects in this step
FirstCallFails ==
    \/ CreateFails
    \/ \E op \in {"getById", "update", "delete"}, id \in IdInputs : FindByIdFails(op, id)
    \/ GetTransactionsCountFails
    \/ GetSummaryFailsAtOnce
    \/ GetAnalyticsFails

\* A later store call of the request suspended in slot r rejects in this step
LaterCallFails(r) ==
    \/ WriteFails(r)
    \/ GetTransactionsFindFails(r)
    \/ GetSummaryFails(r)

\* C15: when a store call of one of the seven operations fails, the request
\* is answered 500 in that step and is over: the store is as before and no
\* handler of the request is left suspended that could call the store again
\* or answer a second time.
StoreFailureIs500 ==
    [][/\ FirstCallFails =>
            /\ resp'.op \in Operations
            /\ resp'.status = 500
            /\ store' = store
            /\ req' = req
       /\ \A r \in Reqs : LaterCallFails(r) =>
            /\ resp'.op = req[r].op
            /\ resp'.op \in Operations
            /\ resp'.status = 500
            /\ store' = store
            /\ req' = [req EXCEPT ![r] = Idle]]_vars

\* C15 witness: the second or third aggregate of a summary failed and the
\* request was answered 500, with records in the store
SummaryFailedLate ==
    /\ resp.op = "summary"
    /\ resp.status = 500
    /\ \A r \in Reqs : req[r] = Idle
    /\ DOMAIN store # {}

\* The credential is a bearer token that verifies and names an existing user
Resolves(c) ==
    /\ c.scheme = "Bearer"
    /\ c.token
    /\ c.verifies
    /\ c.hasId
    /\ c.id \in Users

\* The callers the handlers run or have answered for
HandlerCallers ==
    {req[r].caller : r \in {s \in Reqs : req[s] # Idle}}
    \cup (IF resp.op \in Operations /\ "caller" \in DOMAIN resp
          THEN {resp.caller} ELSE {})

\* C16: protect calls the handler of a route exactly for the credentials that
\* resolve to an existing user, so every handler runs for an existing user;
\* a request with no credential, an invalid one, or one of a user that no
\* longer exists is answered 401 by protect, and that step neither starts a
\* handler nor changes the store.
AuthenticatedOnly ==
    [][/\ \A c \in Credentials : Authenticated(c) <=> Resolves(c)
       /\ \A c \in Credentials : ~Resolves(c) => Protect(c) = 401
       /\ HandlerCallers' \subseteq Users
       /\ resp'.op = "protect" =>
            /\ resp'.status = 401
            /\ store' = store
            /\ req' = req]_vars

\* C16 witness: with records in the store, a request carrying a verified
\* token of a user that no longer exists was answered 401
GoneUserRejected ==
    /\ resp.op = "protect"
    /\ resp.status = 401
    /\ "cred" \in DOMAIN resp
    /\ resp.cred.verifies
    /\ resp.cred.id = GoneUser
    /\ DOMAIN store # {}

----------------------------------------------------------------------------
(* Claims about what leaves the store alone, checked under SpecRoutes *)

\* The records that a step changes or removes
Touched == {id \in DOMAIN store : id \notin DOMAIN store' \/ store'[id] # store[id]}

\* C23: the store changes only in a step of create, update or delete that is
\* answered 201 or 200: no step of list, getById, summary or analytics, no
\* rejection by protect and no request answered 400, 403 or 404 changes it;
\* and a record is changed or removed only by a caller whom findById of that
\* request saw as the record's owner.
RejectedLeavesStore ==
    [][/\ store' # store =>
            /\ resp'.op \in {"create", "update", "delete"}
            /\ resp'.status \in {200, 201}
       /\ Touched # {} =>
            /\ resp'.op \in {"update", "delete"}
            /\ Touched = {resp'.id}
            /\ resp'.read.existed
            /\ resp'.read.owner = resp'.caller]_vars

\* C23 witness: a delete by a user who is not the owner was answered 403 and
\* the record is still stored, with the owner and the fields it was created with
ForeignDeleteRefused ==
    /\ resp.op = "delete"
    /\ resp.status = 403
    /\ resp.id \in DOMAIN store
    /\ store[resp.id].userId # resp.caller
    /\ store[resp.id] = NewDocument(creator[resp.id], Coffee, store[resp.id].createdAt)

----------------------------------------------------------------------------
(* Claims about concurrent updates, checked under SpecRace *)

\* Write j of the history follows write i and belongs to an update of the
\* same record that was suspended between its check and its write when
\* write i happened: the two updates ran concurrently
ConcurrentWrites(i, j) ==
    /\ j = i + 1
    /\ log.writes[j].id = log.writes[i].id
    /\ log.writes[j].slot \in log.writes[i].pending

\* C19: of two updates by the owner that ran concurrently on one record,
\* both are answered 200, and after the second write every field of the
\* record other than updatedAt has the value the later write named, else the
\* value the earlier write named, else the value it had before both: the
\* record is what the two updates give one after the other.
SerialOutcome ==
    \A i \in 1 .. Len(log.writes), j \in 1 .. Len(log.writes) :
        ConcurrentWrites(i, j) =>
            LET first == log.writes[i]
                second == log.writes[j]
            IN  /\ first.status = 200
                /\ second.status = 200
                /\ second.after # <<>>
                /\ \A f \in DOMAIN first.before \ {"updatedAt"} :
                    second.after[f] =
                        IF Has(second.body, f) THEN second.body[f]
                        ELSE IF Has(first.body, f) THEN first.body[f]
                        ELSE first.before[f]

\* C19 witness: two concurrent updates named different amounts and only the
\* earlier named a title; the record has the later amount and that title
LaterAmountWins ==
    \E i \in 1 .. Len(log.writes), j \in 1 .. Len(log.writes) :
        /\ ConcurrentWrites(i, j)
        /\ Has(log.writes[i].body, "title")
        /\ ~Has(log.writes[j].body, "title")
        /\ Has(log.writes[i].body, "amount")
        /\ Has(log.writes[j].body, "amount")
        /\ log.writes[i].body.amount # log.writes[j].body.amount
        /\ store[1].amount = log.writes[j].body.amount
        /\ store[1].title = log.writes[i].body.title

----------------------------------------------------------------------------
(* Claims about list *)

\* The records the filter parameters of the answered list call select
Selected ==
    {id \in DOMAIN store :
        /\ store[id].userId = resp.caller
        /\ resp.q.type = "" \/ store[id].type = resp.q.type
        /\ resp.q.category = "" \/ store[id].category = resp.q.category
        /\ resp.q.startDate = NoDate \/ store[id].date >= resp.q.startDate
        /\ resp.q.endDate = NoDate \/ store[id].date <= resp.q.endDate}

\* C13: a list call over a record set that does not change between its two
\* store calls reports as total the number of the records that are the
\* caller's and meet each filter parameter given (kind, category, start and
\* end bound, both inclusive); it returns only such records, each once, and
\* all of them when they fit the first page; a parameter that is not given
\* excludes nothing, and no record of another owner is returned.
FilterExact ==
    (resp.op = "list" /\ resp.status = 200 /\ ~resp.dirty)
    => /\ resp.total = Cardinality(Selected)
       /\ Range(resp.transactions) \subseteq Selected
       /\ Cardinality(Range(resp.transactions)) = Len(resp.transactions)
       /\ (resp.page = 1 /\ resp.total <= resp.lim)
            => Range(resp.transactions) = Selected
       /\ \A id \in Range(resp.transactions) : store[id].userId = resp.caller

\* C13 witness: a list call with a start bound returned a record dated on the
\* bound and left out an earlier record of the caller
FilteredByStart ==
    /\ resp.op = "list"
    /\ resp.status = 200
    /\ resp.q.startDate # NoDate
    /\ \E id \in Range(resp.transactions) : store[id].date = resp.q.startDate
    /\ \E id \in OwnedBy(store, resp.caller) :
        /\ id \notin Range(resp.transactions)
        /\ store[id].date < resp.q.startDate

\* The pages of the enumeration a client has collected
EnumPages ==
    LET n == Cardinality(Matching(store, enum.key[1], enum.key[2]))
    IN  1 .. MathCeilDiv(n, enum.key[3])

\* C5: when a client has collected pages 1..pages of one owner, filter and
\* page size over a record set that did not change, the pages are pairwise
\* disjoint and their union is the set of records matching the filter.
PagesPartition ==
    (enum.key # <<>> /\ EnumPages \subseteq DOMAIN enum.got)
    => /\ \A a \in EnumPages, b \in EnumPages :
            a # b => enum.got[a] \cap enum.got[b] = {}
       /\ UNION {enum.got[a] : a \in EnumPages}
            = Matching(store, enum.key[1], enum.key[2])

\* The same for record sets in which no two matching records share a date
PagesPartitionDistinctDates ==
    (/\ enum.key # <<>>
     /\ EnumPages \subseteq DOMAIN enum.got
     /\ \A i \in Matching(store, enum.key[1], enum.key[2]),
           j \in Matching(store, enum.key[1], enum.key[2]) :
            i # j => store[i].date # store[j].date)
    => /\ \A a \in EnumPages, b \in EnumPages :
            a # b => enum.got[a] \cap enum.got[b] = {}
       /\ UNION {enum.got[a] : a \in EnumPages}
            = Matching(store, enum.key[1], enum.key[2])

\* C6 as amended: pages is the least integer with pages * pageSize >= total;
\* when total is 0, pages is 0; and if the collection was not written between
\* the count and the find of the call, total is the number of matching
\* records and an empty total comes with an empty record list.
PagesIsCeiling ==
    (resp.op = "list" /\ resp.status = 200 /\ resp.lim >= 1)
    => /\ resp.pages * resp.lim >= resp.total
       /\ (resp.pages - 1) * resp.lim < resp.total
       /\ resp.total = 0 => resp.pages = 0
       /\ ~resp.dirty =>
            /\ resp.total = Cardinality(Matching(store, resp.caller, resp.q))
            /\ resp.total = 0 => resp.transactions = <<>>

\* C6 witness: a total that is no multiple of the page size was rounded up
PagesRoundedUp ==
    /\ resp.op = "list"
    /\ resp.status = 200
    /\ resp.total = 1
    /\ resp.lim = 2
    /\ resp.pages = 1
    /\ ~resp.dirty

\* C6 as claimed: for every list call pages = ceil(total / pageSize), and
\* when total is 0, pages is 0 and the returned record list is empty.
PagesIsCeilingEveryCall ==
    (resp.op = "list" /\ resp.status = 200 /\ resp.lim >= 1)
    => /\ resp.pages * resp.lim >= resp.total
       /\ (resp.pages - 1) * resp.lim < resp.total
       /\ resp.total = 0 => (resp.pages = 0 /\ resp.transactions = <<>>)

\* C7: whatever the page and page-size inputs, the resolved page and page
\* size are integers >= 1 and the call returns a page result, never an error
\* (unless a store call failed).
ListNeverRejects ==
    /\ \A r \in Reqs :
        req[r].op = "list" => (req[r].pageNum >= 1 /\ req[r].lim >= 1)
    /\ (resp.op = "list" /\ ~(resp.status = 500 /\ resp.storeFailed))
        => (resp.status = 200 /\ resp.page >= 1 /\ resp.lim >= 1)

\* Record a was created after record b: ids are issued in the order of creation
CreatedLater(a, b) == a > b

\* C21: the records of a page returned by list are in non-increasing order
\* of date, and of two records with equal date the one created later comes
\* first (so that the same call on the same record set returns the same
\* records in the same order).
ListOrderFixed ==
    (resp.op = "list" /\ resp.status = 200)
    => \A i \in 1 .. Len(resp.transactions), j \in 1 .. Len(resp.transactions) :
        i < j =>
            /\ store[resp.transactions[i]].date >= store[resp.transactions[j]].date
            /\ store[resp.transactions[i]].date = store[resp.transactions[j]].date
                => CreatedLater(resp.transactions[i], resp.transactions[j])

----------------------------------------------------------------------------
(* Claims about summary *)

\* C8: totalIncome + totalExpense of summary is the sum of amount over all of
\* the caller's records, and a total is 0 when the caller has no record of
\* that kind.
TotalsAddUp ==
    (resp.op = "summary" /\ resp.status = 200)
    => LET own == OwnedBy(store, resp.caller) IN
        /\ resp.totalIncome + resp.totalExpense = SumAmounts(store, own)
        /\ (\A id \in own : store[id].type # "income") => resp.totalIncome = 0
        /\ (\A id \in own : store[id].type # "expense") => resp.totalExpense = 0

\* The categories of the caller's records, and the sum of amount of each
CallerCategories == {store[id].category : id \in OwnedBy(store, resp.caller)}

CallerTotal(c) ==
    SumAmounts(store, {id \in OwnedBy(store, resp.caller) : store[id].category = c})

ShownCategories == {resp.category[i].category : i \in 1 .. Len(resp.category)}

\* C17: the category list of a summary whose record set did not change
\* during the call has one group per category of the caller's records
\* (records of either kind and of any date; no category is a category of its
\* own), at most 10 groups; a group's total is the sum of amount of the
\* caller's records of that category; totals do not increase along the
\* list; and no group left out has a greater total than a group listed.
CategoryTopTen ==
    (resp.op = "summary" /\ resp.status = 200 /\ ~resp.dirty)
    => /\ Len(resp.category) <= 10
       /\ Len(resp.category) = Cardinality(ShownCategories)
       /\ ShownCategories \subseteq CallerCategories
       /\ Cardinality(CallerCategories) <= 10 => ShownCategories = CallerCategories
       /\ Cardinality(CallerCategories) > 10 => Len(resp.category) = 10
       /\ \A i \in 1 .. Len(resp.category) :
            resp.category[i].total = CallerTotal(resp.category[i].category)
       /\ \A i \in 1 .. Len(resp.category), j \in 1 .. Len(resp.category) :
            i < j => resp.category[i].total >= resp.category[j].total
       /\ \A c \in CallerCategories \ ShownCategories, d \in ShownCategories :
            CallerTotal(c) <= CallerTotal(d)

\* C17 witness: of eleven categories ten are listed; the one left out has the
\* same total as the last one listed, and the unset category is listed
CategoryCutAtTie ==
    /\ resp.op = "summary"
    /\ resp.status = 200
    /\ ~resp.dirty
    /\ Cardinality(CallerCategories) = 11
    /\ Len(resp.category) = 10
    /\ NoCategory \in ShownCategories
    /\ \E c \in CallerCategories \ ShownCategories :
            CallerTotal(c) = resp.category[10].total

\* The caller's records inside the window of the monthly series
InWindow ==
    {id \in OwnedBy(store, resp.caller) : store[id].date >= StartDate(resp.at)}

\* C9: every bucket of the monthly series has a contributing record of the
\* caller inside the window, buckets ascend by (year, month), and income +
\* expense of a bucket is the sum of amount over the in-window records of
\* that year and month.
MonthlyBuckets ==
    (resp.op = "summary" /\ resp.status = 200 /\ ~resp.dirty)
    => /\ \A i \in 1 .. Len(resp.monthly) :
            LET b == resp.monthly[i]
                of == {id \in InWindow : /\ YearOf(store[id].date) = b.year
                                         /\ MonthOf(store[id].date) = b.month}
            IN  of # {} /\ b.income + b.expense = SumAmounts(store, of)
       /\ \A i \in 1 .. Len(resp.monthly), j \in 1 .. Len(resp.monthly) :
            i < j => KeyBefore(<<resp.monthly[i].year, resp.monthly[i].month>>,
                               <<resp.monthly[j].year, resp.monthly[j].month>>)

\* Midnight of the calendar day 6 months before t
SixMonthsBefore(t) == SetHoursZero(SetMonth(t, (MonthOf(t) - 1) - 6))

\* C10: the monthly series is computed over exactly the caller's records
\* dated at or after midnight of the day 6 months before the request.
WindowSixMonths ==
    (resp.op = "summary" /\ resp.status = 200 /\ ~resp.dirty)
    => resp.monthly =
        MonthlyOf(store, {id \in OwnedBy(store, resp.caller) :
                            store[id].date >= SixMonthsBefore(resp.at)})

----------------------------------------------------------------------------
(* Claims about analytics *)

\* The caller's records of kind k dated in the month named m of any year
InMonthOfKind(m, k) ==
    {id \in OwnedBy(store, resp.caller) :
        /\ MonthNames[MonthOf(store[id].date)] = m
        /\ store[id].type = k}

\* The caller's expense records counted under the label c: those of category
\* c, and under "Uncategorized" also those without category (unset or empty)
ExpensesLabelled(c) ==
    {id \in OwnedBy(store, resp.caller) :
        /\ store[id].type = "expense"
        /\ \/ store[id].category = c /\ c # ""
           \/ c = "Uncategorized" /\ store[id].category \in {NoCategory, ""}}

\* C18: analytics answers with one monthly bucket per month name in which
\* the caller has a record, whatever the year and with no date window; the
\* bucket's income and expense are the sums of amount of the caller's income
\* and expense records of that month of any year; the category breakdown
\* has one entry per label of the caller's expense records, whose value is
\* the sum of amount of the expense records under that label, a record
\* without category (unset or empty) being under "Uncategorized".
AnalyticsView ==
    (resp.op = "analytics" /\ resp.status = 200)
    => /\ DOMAIN resp.monthly =
            {MonthNames[MonthOf(store[id].date)] : id \in OwnedBy(store, resp.caller)}
       /\ \A m \in DOMAIN resp.monthly :
            /\ resp.monthly[m].income = SumAmounts(store, InMonthOfKind(m, "income"))
            /\ resp.monthly[m].expense = SumAmounts(store, InMonthOfKind(m, "expense"))
       /\ \A c \in DOMAIN resp.categoryTotals :
            /\ ExpensesLabelled(c) # {}
            /\ resp.categoryTotals[c] = SumAmounts(store, ExpensesLabelled(c))
       /\ \A id \in OwnedBy(store, resp.caller) :
            store[id].type = "expense" =>
                \E c \in DOMAIN resp.categoryTotals : id \in ExpensesLabelled(c)

\* C18 witness: one bucket holds records of the same month of two years, and
\* an expense record without category is counted under "Uncategorized"
JanuariesMerged ==
    /\ resp.op = "analytics"
    /\ resp.status = 200
    /\ \E i \in OwnedBy(store, resp.caller), j \in OwnedBy(store, resp.caller) :
        /\ MonthOf(store[i].date) = MonthOf(store[j].date)
        /\ YearOf(store[i].date) # YearOf(store[j].date)
        /\ store[i].type = "expense"
        /\ store[i].category = NoCategory
        /\ "Uncategorized" \in DOMAIN resp.categoryTotals
        /\ resp.monthly[MonthNames[MonthOf(store[i].date)]].expense
            + resp.monthly[MonthNames[MonthOf(store[i].date)]].income
            = store[i].amount + store[j].amount

====
